---- MODULE Spec2Model ----
(***************************************************************************)
(* Model of Demoph::AdvancedParticleSystem                                 *)
(* (src/src/particles/advanced_particle_system.cpp) and of the Vec3        *)
(* operations it uses (src/unnamed/part_005).                              *)
(*                                                                         *)
(* Floats are modelled as fixed-point integers with Scale units per 1.0f;  *)
(* a product or quotient is rounded to the nearest unit.                   *)
(***************************************************************************)
EXTENDS Integers, Sequences, FiniteSets, TLC

VARIABLES
    m_particles,          \* std::vector<Particle>, resized to m_maxParticles
    m_activeParticles,    \* uint32_t
    m_maxParticles,       \* uint32_t, fixed by the constructor
    m_isGPUBased,         \* bool
    m_simulationTime,     \* float
    m_emitters,           \* std::vector<std::unique_ptr<ParticleEmitter>>
    m_forceFields,        \* std::vector<ForceField>
    m_collisionPlanes,    \* std::vector<Plane>
    m_gravity,            \* Vec3
    m_windForce,          \* Vec3
    m_airResistance,      \* float
    m_restitution,        \* float
    m_enableCollisions,   \* bool
    m_collisionResponse,  \* CollisionResponse
    m_statistics,         \* ParticleSystemStatistics
    m_particleIndices,    \* std::vector<ParticleIndex>, the sort's index list
    m_sortParticles,      \* bool
    m_renderMode,         \* ParticleRenderMode
    rendered,             \* the draw list last handed to the renderer
    frame,                \* the stages run by the last Update and by the Render after it
    nextEmitter,          \* serial number of the next ParticleEmitter constructed
    updates,              \* number of Update calls made so far
    stuck,                \* the live slots whose particle a Stick response has held
    updating,             \* the Update in progress on another thread: its position
    elapsed,              \* the sum of the deltaTime of every Update called so far
    destroyed,            \* the emitters that DestroyEmitter has erased
    m_state,              \* EngineState of the Engine
    m_shouldShutdown,     \* bool
    m_frameCount,         \* uint64_t
    m_scenes,             \* std::vector<std::unique_ptr<Scene>>
    m_activeScene,        \* Scene*, 0 for nullptr
    nextScene,            \* serial number of the next Scene constructed
    run,                  \* where the call of Engine::Run stands
    stages,               \* the stages that the current frame has completed
    shouldClose,          \* what Window::ShouldClose returns
    requested,            \* where Run stood when RequestShutdown was first called
    last                  \* the last operation: its arguments, result and pre-state

vars == <<m_particles, m_activeParticles, m_maxParticles, m_isGPUBased,
          m_simulationTime, m_emitters, m_forceFields, m_collisionPlanes,
          m_gravity, m_windForce, m_airResistance, m_restitution,
          m_enableCollisions, m_collisionResponse, m_statistics,
          m_particleIndices, m_sortParticles, m_renderMode, rendered, frame,
          nextEmitter, updates, stuck, updating, elapsed, destroyed,
          m_state, m_shouldShutdown, m_frameCount, m_scenes, m_activeScene,
          nextScene, run, stages, shouldClose, requested, last>>

-----------------------------------------------------------------------------
(* Bounds of the model *)

MaxParticles == 2
MaxUpdates == 2
MaxEmitters == 1
MaxFields == 1
MaxCreated == 3
MaxAddresses == 3
LargePool == 3
MaxListed == 3
MaxFrames == 3

-----------------------------------------------------------------------------
(* float arithmetic, fixed point *)

Scale == 100

Abs(a) == IF a < 0 THEN 0 - a ELSE a

\* n / d rounded to the nearest integer, d # 0
RDiv(n, d) ==
    IF d > 0 THEN (2 * n + d) \div (2 * d)
             ELSE (2 * (0 - n) + (0 - d)) \div (2 * (0 - d))

\* the float that is not a number: what 0.0f / 0.0f gives, and what every
\* sum, product and quotient of it gives; every comparison with it is false
NaN == 0 - 1000000000

\* a + b and a - b on floats
Plus(a, b) == IF a = NaN \/ b = NaN THEN NaN ELSE a + b
Minus(a, b) == IF a = NaN \/ b = NaN THEN NaN ELSE a - b

\* a < b on floats
Below(a, b) == a # NaN /\ b # NaN /\ a < b

\* a * b on floats
FMul(a, b) == IF a = NaN \/ b = NaN THEN NaN ELSE RDiv(a * b, Scale)

\* a / b on floats; the divisor 0 is met with the dividend 0 only
FDiv(a, b) == IF a = NaN \/ b = NaN \/ b = 0 THEN NaN ELSE RDiv(a * Scale, b)

Min(a, b) == IF a < b THEN a ELSE b

RECURSIVE SqrtSearch(_, _, _)
SqrtSearch(n, lo, hi) ==
    IF lo >= hi THEN lo
    ELSE LET mid == (lo + hi + 1) \div 2
         IN IF mid * mid <= n THEN SqrtSearch(n, mid, hi)
                              ELSE SqrtSearch(n, lo, mid - 1)

\* std::sqrt of a float whose fixed-point square is n (n = x*x, x in units)
\* r or r + 1, whichever is nearer to the root of n, r being its floor
Nearest(n, r) == IF n - r * r > (r + 1) * (r + 1) - n THEN r + 1 ELSE r

Sqrt(n) == Nearest(n, SqrtSearch(n, 0, 40000))

-----------------------------------------------------------------------------
(* Vec3 *)

Zero == <<0, 0, 0>>
Up == <<0, Scale, 0>>

VAdd(a, b) == <<Plus(a[1], b[1]), Plus(a[2], b[2]), Plus(a[3], b[3])>>
VSub(a, b) == <<Minus(a[1], b[1]), Minus(a[2], b[2]), Minus(a[3], b[3])>>
VNeg(a) == <<0 - a[1], 0 - a[2], 0 - a[3]>>

\* Vec3::operator*(float)
VMul(a, s) == <<FMul(a[1], s), FMul(a[2], s), FMul(a[3], s)>>

\* whether a component of the vector is not a number
HasNaN(a) == a[1] = NaN \/ a[2] = NaN \/ a[3] = NaN

\* Vec3::Dot
Dot(a, b) ==
    IF HasNaN(a) \/ HasNaN(b) THEN NaN
    ELSE RDiv(a[1] * b[1] + a[2] * b[2] + a[3] * b[3], Scale)

\* Vec3::Cross
Cross(a, b) ==
    <<RDiv(a[2] * b[3] - a[3] * b[2], Scale),
      RDiv(a[3] * b[1] - a[1] * b[3], Scale),
      RDiv(a[1] * b[2] - a[2] * b[1], Scale)>>

\* Vec3::LengthSquared
LengthSquared(a) == RDiv(a[1] * a[1] + a[2] * a[2] + a[3] * a[3], Scale)

\* Vec3::Length
Length(a) == Sqrt(a[1] * a[1] + a[2] * a[2] + a[3] * a[3])

\* Vec3::Normalize: 1e-6f is below one unit, so len > 1e-6f is len > 0
Scaled(a, len) ==
    IF len > 0
    THEN <<RDiv(a[1] * Scale, len), RDiv(a[2] * Scale, len), RDiv(a[3] * Scale, len)>>
    ELSE Zero

Normalize(a) == Scaled(a, Length(a))

\* Reflect without the factor 2.0f
ReflectHalf(v, normal) == VSub(v, VMul(normal, Dot(v, normal)))

\* Vec3::Reflect
Reflect(v, normal) == VSub(v, VMul(normal, 2 * Dot(v, normal)))

-----------------------------------------------------------------------------
(* Data *)

\* Particle, value-initialised by m_particles.resize(m_maxParticles)
NoParticle ==
    [position |-> Zero, velocity |-> Zero, life |-> 0, initialLife |-> 0,
     size |-> 0, startSize |-> 0, endSize |-> 0,
     color |-> 0, startColor |-> 0, endColor |-> 0]

\* Plane::DistanceToPoint: signed distance of point to the plane normal.p = distance
DistanceToPoint(plane, point) == Minus(Dot(plane.normal, point), plane.distance)

\* Math::Lerp
Lerp(a, b, t) == a + FMul(b - a, t)

\* CalculateFalloff(x, falloff), x = distance / radius
CalculateFalloff(x, falloff) ==
    CASE falloff = "Linear" -> Minus(Scale, x)
      [] falloff = "Quadratic" -> FMul(Minus(Scale, x), Minus(Scale, x))
      [] OTHER -> Scale

\* GenerateTurbulence(position, scale): a pseudo-noise vector that is a
\* function of the position and the scale, each component within [-1, 1]
GenerateTurbulence(position, scale) ==
    <<(FMul(position[1], scale) % (2 * Scale + 1)) - Scale,
      (FMul(position[2], scale) % (2 * Scale + 1)) - Scale,
      (FMul(position[3], scale) % (2 * Scale + 1)) - Scale>>

-----------------------------------------------------------------------------
(* Integration of one particle *)

\* strength, after the falloff at this distance
FieldStrength(field, distance) ==
    IF field.falloff # "None"
    THEN FMul(field.strength,
              CalculateFalloff(FDiv(distance, field.radius), field.falloff))
    ELSE field.strength

\* the switch on field.type; direction is normalized
FieldForce(field, position, direction, strength) ==
    CASE field.type = "Attract" -> VMul(VNeg(direction), strength)
      [] field.type = "Repel" -> VMul(direction, strength)
      [] field.type = "Vortex" -> VMul(Cross(direction, Up), strength)
      [] field.type = "Turbulence" ->
            VMul(GenerateTurbulence(position, field.turbulenceScale), strength)

\* ApplyForceField from the test of the distance on
ApplyForceAt(particle, field, deltaTime, direction, distance) ==
    IF distance > field.radius
    THEN particle
    ELSE [particle EXCEPT !.velocity =
            VAdd(@, VMul(FieldForce(field, particle.position, Normalize(direction),
                                    FieldStrength(field, distance)),
                         deltaTime))]

ApplyForceFrom(particle, field, deltaTime, direction) ==
    ApplyForceAt(particle, field, deltaTime, direction, Length(direction))

ApplyForceField(particle, field, deltaTime) ==
    ApplyForceFrom(particle, field, deltaTime,
                   VSub(particle.position, field.position))

RECURSIVE ApplyForceFields(_, _, _, _)
ApplyForceFields(particle, fields, k, deltaTime) ==
    IF k > Len(fields) THEN particle
    ELSE ApplyForceFields(ApplyForceField(particle, fields[k], deltaTime),
                          fields, k + 1, deltaTime)

\* CollisionResponse with the correction of line 380 added, not subtracted
CollisionResponsePushedIn(particle, plane, distance, half) ==
    IF Below(distance, half)
    THEN CASE m_collisionResponse = "Die" -> [particle EXCEPT !.life = 0]
           [] m_collisionResponse = "Bounce" ->
                 [particle EXCEPT
                     !.velocity = VMul(Reflect(particle.velocity, plane.normal),
                                       m_restitution),
                     !.position = VAdd(particle.position,
                                       VMul(plane.normal, distance - half))]
           [] m_collisionResponse = "Stick" -> [particle EXCEPT !.velocity = Zero]
    ELSE particle

\* CollisionResponse without the assignment of line 384
CollisionResponseStickKeepsVelocity(particle, plane, distance, half) ==
    IF Below(distance, half)
    THEN CASE m_collisionResponse = "Die" -> [particle EXCEPT !.life = 0]
           [] m_collisionResponse = "Bounce" ->
                 [particle EXCEPT
                     !.velocity = VMul(Reflect(particle.velocity, plane.normal),
                                       m_restitution),
                     !.position = VSub(particle.position,
                                       VMul(plane.normal, distance - half))]
           [] m_collisionResponse = "Stick" -> particle
    ELSE particle

\* the response of one plane to a particle at this distance of it, half
\* being particle.size * 0.5f
CollisionResponse(particle, plane, distance, half) ==
    IF Below(distance, half)
    THEN CASE m_collisionResponse = "Die" -> [particle EXCEPT !.life = 0]
           [] m_collisionResponse = "Bounce" ->
                 [particle EXCEPT
                     !.velocity = VMul(Reflect(particle.velocity, plane.normal),
                                       m_restitution),
                     !.position = VSub(particle.position,
                                       VMul(plane.normal, distance - half))]
           [] m_collisionResponse = "Stick" -> [particle EXCEPT !.velocity = Zero]
    ELSE particle

HalfSize(particle) == FMul(particle.size, Scale \div 2)

\* the body of HandleParticleCollisions' loop for one plane
CollideWithPlane(particle, plane) ==
    CollisionResponse(particle, plane,
                      DistanceToPoint(plane, particle.position), HalfSize(particle))

\* HandleParticleCollisions' loop over the planes k..n
RECURSIVE CollidePlanes(_, _, _)
CollidePlanes(particle, k, n) ==
    IF k > n THEN particle
    ELSE CollidePlanes(CollideWithPlane(particle, m_collisionPlanes[k]), k + 1, n)

HandleParticleCollisions(particle) ==
    CollidePlanes(particle, 1, Len(m_collisionPlanes))

\* particle.position += particle.velocity * deltaTime
Move(particle, deltaTime) ==
    [particle EXCEPT !.position = VAdd(@, VMul(particle.velocity, deltaTime))]

\* Accelerate with a damping factor that is kept from going below 0
AccelerateClamped(particle, deltaTime) ==
    [particle EXCEPT !.velocity =
        VMul(VAdd(VAdd(@, VMul(m_gravity, deltaTime)), VMul(m_windForce, deltaTime)),
             IF Scale - FMul(m_airResistance, deltaTime) < 0
             THEN 0 ELSE Scale - FMul(m_airResistance, deltaTime))]

\* gravity, wind and air resistance on the velocity
Accelerate(particle, deltaTime) ==
    [particle EXCEPT !.velocity =
        VMul(VAdd(VAdd(@, VMul(m_gravity, deltaTime)), VMul(m_windForce, deltaTime)),
             Scale - FMul(m_airResistance, deltaTime))]

\* UpdateParticlePhysics up to and including the position update
IntegrateParticle(particle, deltaTime) ==
    Move(ApplyForceFields(Accelerate(particle, deltaTime), m_forceFields, 1, deltaTime),
         deltaTime)

\* the collision stage, when enabled
Collide(particle) ==
    IF m_enableCollisions THEN HandleParticleCollisions(particle) ELSE particle

UpdateParticlePhysics(particle, deltaTime) ==
    Collide(IntegrateParticle(particle, deltaTime))

\* particle.life -= deltaTime
Age(particle, deltaTime) == [particle EXCEPT !.life = @ - deltaTime]

\* Interpolate with the ends of the two Lerp calls exchanged
InterpolateFromStart(particle, lifeRatio) ==
    [particle EXCEPT
        !.color = Lerp(particle.startColor, particle.endColor, lifeRatio),
        !.size = Lerp(particle.startSize, particle.endSize, lifeRatio)]

Interpolate(particle, lifeRatio) ==
    [particle EXCEPT
        !.color = Lerp(particle.endColor, particle.startColor, lifeRatio),
        !.size = Lerp(particle.endSize, particle.startSize, lifeRatio)]

UpdateParticleProperties(particle) ==
    Interpolate(particle, FDiv(particle.life, particle.initialLife))

\* the body of UpdateCPU's loop for one slot
UpdateParticle(particle, deltaTime) ==
    IF particle.life <= 0
    THEN particle
    ELSE UpdateParticleProperties(
            Age(UpdateParticlePhysics(particle, deltaTime), deltaTime))

-----------------------------------------------------------------------------
(* The pool *)

\* CompactFrom with the test of line 477 written life >= 0
RECURSIVE CompactFromKeepsZero(_, _, _, _)
CompactFromKeepsZero(ps, active, readIndex, writeIndex) ==
    IF readIndex > active
    THEN [particles |-> ps, writeIndex |-> writeIndex]
    ELSE IF ps[readIndex].life >= 0
         THEN CompactFromKeepsZero(IF writeIndex + 1 # readIndex
                                   THEN [ps EXCEPT ![writeIndex + 1] = ps[readIndex]]
                                   ELSE ps,
                                   active, readIndex + 1, writeIndex + 1)
         ELSE CompactFromKeepsZero(ps, active, readIndex + 1, writeIndex)

\* CompactFrom that fills the slot of a dead particle with the last
\* particle of the prefix
RECURSIVE CompactFromMovesLast(_, _, _, _)
CompactFromMovesLast(ps, active, readIndex, writeIndex) ==
    IF readIndex > active
    THEN [particles |-> ps, writeIndex |-> writeIndex]
    ELSE IF ps[readIndex].life > 0
         THEN CompactFromMovesLast(ps, active, readIndex + 1, writeIndex + 1)
         ELSE CompactFromMovesLast([ps EXCEPT ![readIndex] = ps[active]],
                                   active - 1, readIndex, writeIndex)

\* RemoveDeadParticles' loop from readIndex on; slots are 1-based, so that
\* writeIndex counts the slots already written
RECURSIVE CompactFrom(_, _, _, _)
CompactFrom(ps, active, readIndex, writeIndex) ==
    IF readIndex > active
    THEN [particles |-> ps, writeIndex |-> writeIndex]
    ELSE IF ps[readIndex].life > 0
         THEN CompactFrom(IF writeIndex + 1 # readIndex
                          THEN [ps EXCEPT ![writeIndex + 1] = ps[readIndex]]
                          ELSE ps,
                          active, readIndex + 1, writeIndex + 1)
         ELSE CompactFrom(ps, active, readIndex + 1, writeIndex)

\* RemoveDeadParticles with m_activeParticles set one past writeIndex
RemoveDeadParticlesOffByOne(ps, active) ==
    LET r == CompactFrom(ps, active, 1, 0)
    IN [particles |-> r.particles, active |-> r.writeIndex + 1]

\* the pool and m_activeParticles after RemoveDeadParticles
RemoveDeadParticles(ps, active) ==
    LET r == CompactFrom(ps, active, 1, 0)
    IN [particles |-> r.particles, active |-> r.writeIndex]

\* UpdateCPU's loop from slot i on
RECURSIVE UpdateLoop(_, _, _, _)
UpdateLoop(ps, active, i, deltaTime) ==
    IF i > active THEN ps
    ELSE UpdateLoop([ps EXCEPT ![i] = UpdateParticle(ps[i], deltaTime)],
                    active, i + 1, deltaTime)

\* UpdateCPU without its call of RemoveDeadParticles
UpdateCPUKeepsDead(ps, active, deltaTime) ==
    [particles |-> UpdateLoop(ps, active, 1, deltaTime), active |-> active]

UpdateCPU(ps, active, deltaTime) ==
    RemoveDeadParticles(UpdateLoop(ps, active, 1, deltaTime), active)

\* the k-th slot of live, a set of slots
NthOf(live, k) == CHOOSE i \in live : Cardinality({j \in live : j <= i}) = k

\* the pool with the slots of live, in order, as its prefix
Gathered(ps, live) ==
    [particles |-> [k \in 1..Len(ps) |->
                      IF k <= Cardinality(live) THEN ps[NthOf(live, k)] ELSE ps[k]],
     active |-> Cardinality(live)]

Survivors(ps, active) == Gathered(ps, {i \in 1..active : ps[i].life > 0})

\* UpdateGPU: the simulation and collision kernels take every slot of the
\* live prefix through the integration steps at once, and UpdateAliveCount
\* leaves the survivors as the prefix
UpdateGPU(ps, active, deltaTime) ==
    Survivors([i \in 1..Len(ps) |->
                  IF i <= active THEN UpdateParticle(ps[i], deltaTime) ELSE ps[i]],
              active)

-----------------------------------------------------------------------------
(* Emission *)

\* what SamplePosition, SampleVelocity and the uniform distributions of
\* InitializeParticle can draw for one particle: an offset within the shape,
\* a velocity of the distribution, a life and a size at an end of their range
Samples(emission) ==
    [offset : emission.shape, velocity : emission.velocity,
     life : {emission.minLife, emission.maxLife},
     size : {emission.minSize, emission.maxSize}]

InitializeParticle(emission, sample) ==
    [position |-> VAdd(sample.offset, emission.position),
     velocity |-> sample.velocity,
     life |-> sample.life,
     initialLife |-> sample.life,
     size |-> sample.size,
     startSize |-> sample.size,
     endSize |-> FMul(sample.size, emission.sizeOverLifetime),
     color |-> emission.startColor,
     startColor |-> emission.startColor,
     endColor |-> emission.endColor]

\* EmitLoop with the loop test of line 396 written i <= count
RECURSIVE EmitLoopOneMore(_, _, _, _, _, _, _)
EmitLoopOneMore(ps, active, emission, samples, count, i, emitted) ==
    IF i <= count /\ active < m_maxParticles
    THEN EmitLoopOneMore(
            [ps EXCEPT ![active + 1] =
                InitializeParticle(emission, samples[Min(i + 1, Len(samples))])],
            active + 1, emission, samples, count, i + 1, emitted + 1)
    ELSE [particles |-> ps, active |-> active, emitted |-> emitted]

\* EmitLoop that writes from the first slot of the pool on
RECURSIVE EmitLoopFromStart(_, _, _, _, _, _, _)
EmitLoopFromStart(ps, active, emission, samples, count, i, emitted) ==
    IF i < count /\ active < m_maxParticles
    THEN EmitLoopFromStart(
            [ps EXCEPT ![i + 1] = InitializeParticle(emission, samples[i + 1])],
            active + 1, emission, samples, count, i + 1, emitted + 1)
    ELSE [particles |-> ps, active |-> active, emitted |-> emitted]

\* EmitParticlesCPU's loop from iteration i on (i counts from 0)
RECURSIVE EmitLoop(_, _, _, _, _, _, _)
EmitLoop(ps, active, emission, samples, count, i, emitted) ==
    IF i < count /\ active < m_maxParticles
    THEN EmitLoop([ps EXCEPT ![active + 1] = InitializeParticle(emission, samples[i + 1])],
                  active + 1, emission, samples, count, i + 1, emitted + 1)
    ELSE [particles |-> ps, active |-> active, emitted |-> emitted]

EmitParticlesCPU(ps, active, emission, samples, count) ==
    EmitLoop(ps, active, emission, samples, count, 0, 0)

\* EmitParticlesGPU: the emission kernel stamps count particles into the
\* slots that follow the live prefix
EmitParticlesGPU(ps, active, emission, samples, count) ==
    [particles |-> [k \in 1..Len(ps) |->
                      IF k > active /\ k <= active + count
                      THEN InitializeParticle(emission, samples[k - active])
                      ELSE ps[k]],
     active |-> active + count,
     emitted |-> count]

\* std::min(emission.count, m_maxParticles - m_activeParticles) on uint32_t:
\* a difference that wraps around is larger than any count
ParticlesToEmit(active, count) ==
    IF active <= m_maxParticles THEN Min(count, m_maxParticles - active) ELSE count

\* EmitParticles on the pool ps with active live slots; samples holds the
\* random draws, one per particle
EmitParticles(ps, active, emission, samples) ==
    LET particlesToEmit == ParticlesToEmit(active, emission.count)
    IN IF particlesToEmit = 0
       THEN [particles |-> ps, active |-> active, emitted |-> 0]
       ELSE IF m_isGPUBased
            THEN EmitParticlesGPU(ps, active, emission, samples, particlesToEmit)
            ELSE EmitParticlesCPU(ps, active, emission, samples, particlesToEmit)

-----------------------------------------------------------------------------
(* Emitters *)

\* what one ParticleEmitter::Update does: it emits nothing, or a burst of
\* its descriptor through EmitParticles, with the draws in samples
EmitterPlans(emitter) ==
    [fire : BOOLEAN,
     samples : [1..Min(emitter.desc.count, m_maxParticles) -> Samples(emitter.desc)]]

\* one emitter's Update on the pool
UpdateEmitter(ps, active, emitter, plan) ==
    IF plan.fire
    THEN EmitParticles(ps, active, emitter.desc, plan.samples)
    ELSE [particles |-> ps, active |-> active, emitted |-> 0]

RECURSIVE UpdateEmitters(_, _, _, _)
\* UpdateEmitters on the pool r of emitter k - 1
UpdateEmittersNext(r, k, plans) == UpdateEmitters(r.particles, r.active, k, plans)

\* Update's loop over m_emitters from emitter k on
UpdateEmitters(ps, active, k, plans) ==
    IF k > Len(m_emitters)
    THEN [particles |-> ps, active |-> active]
    ELSE UpdateEmittersNext(UpdateEmitter(ps, active, m_emitters[k], plans[k]),
                            k + 1, plans)

\* UpdateStatistics
Statistics(active, time) ==
    [activeParticles |-> active, maxParticles |-> m_maxParticles,
     simulationTime |-> time, isGPUBased |-> m_isGPUBased]

-----------------------------------------------------------------------------
(* Operations *)

pool == <<m_particles, m_activeParticles>>
physics == <<m_gravity, m_windForce, m_airResistance, m_restitution,
             m_enableCollisions, m_collisionResponse>>
lists == <<m_emitters, m_forceFields, m_collisionPlanes, nextEmitter>>
render == <<m_particleIndices, m_sortParticles, m_renderMode, rendered>>

Called(op, dt, count, ret) ==
    [op |-> op, dt |-> dt, count |-> count, ret |-> ret,
     particles |-> m_particles, active |-> m_activeParticles,
     time |-> m_simulationTime, stuck |-> stuck]

engine == <<m_state, m_shouldShutdown, m_frameCount, m_scenes, m_activeScene,
            nextScene, run, stages, shouldClose, requested>>

\* no call of RequestShutdown so far
NotRequested == [frame |-> 0 - 1, stage |-> "none"]

\* the constructor Engine() and the member initialisers of the class
EngineConstructed ==
    /\ m_state = "Uninitialized"
    /\ m_shouldShutdown = FALSE
    /\ m_frameCount = 0
    /\ m_scenes = <<>>
    /\ m_activeScene = 0
    /\ nextScene = 1
    /\ run = "idle"
    /\ stages = <<>>
    /\ shouldClose = FALSE
    /\ requested = NotRequested

\* no Update is in progress
Idle == [phase |-> "idle"]

\* the constructor AdvancedParticleSystem(maxParticles), with Initialize
\* and InitializePhysics
Constructed(maxParticles) ==
    /\ m_maxParticles = maxParticles
    /\ m_particles = [i \in 1..maxParticles |-> NoParticle]
    /\ m_activeParticles = 0
    /\ m_isGPUBased = TRUE
    /\ m_simulationTime = 0
    /\ m_emitters = <<>>
    /\ m_forceFields = <<>>
    /\ m_collisionPlanes = <<>>
    /\ m_gravity = <<0, 0 - 981, 0>>
    /\ m_windForce = Zero
    /\ m_airResistance = 1
    /\ m_restitution = 80
    /\ m_enableCollisions = TRUE
    /\ m_collisionResponse = "Bounce"
    /\ m_statistics = [activeParticles |-> 0, maxParticles |-> 0,
                       simulationTime |-> 0, isGPUBased |-> FALSE]
    /\ m_particleIndices = <<>>
    /\ m_sortParticles = TRUE
    /\ m_renderMode = "Billboard"
    /\ rendered = <<>>
    /\ frame = [update |-> <<>>, render |-> <<>>]
    /\ nextEmitter = 1
    /\ updates = 0
    /\ stuck = {}
    /\ updating = Idle
    /\ elapsed = 0
    /\ destroyed = {}
    /\ EngineConstructed
    /\ last = [op |-> "Construct", dt |-> 0, count |-> 0, ret |-> 0,
               particles |-> [i \in 1..maxParticles |-> NoParticle],
               active |-> 0, time |-> 0, stuck |-> {}]

Init == Constructed(MaxParticles)

\* the emitters, by serial number, on which Update's loop over m_emitters
\* calls Update, from emitter k on
RECURSIVE EmittersUpdated(_)
EmittersUpdated(k) ==
    IF k > Len(m_emitters) THEN <<>>
    ELSE <<m_emitters[k].serial>> \o EmittersUpdated(k + 1)

\* the stages of Update, in the order in which its body runs them: the
\* integration of the pool, with the collision stage when it is enabled, one
\* emission stage for each emitter, the statistics
UpdateStages ==
    <<"Integrate">> \o (IF m_enableCollisions THEN <<"Collision">> ELSE <<>>)
        \o [k \in 1..Len(m_emitters) |-> "Emit"] \o <<"Statistics">>

\* the end of Update: UpdateStatistics on the pool the emitters left
Finish(e, time) ==
    /\ m_simulationTime' = time
    /\ m_particles' = e.particles
    /\ m_activeParticles' = e.active
    /\ m_statistics' = Statistics(e.active, time)

\* the emitter loop on the pool r that the integration left
RunEmitters(r, plans, time) ==
    Finish(UpdateEmitters(r.particles, r.active, 1, plans), time)

\* whether the particle meets the test of line 370 for some plane
TouchesPlane(particle) ==
    \E k \in 1..Len(m_collisionPlanes) :
        Below(DistanceToPoint(m_collisionPlanes[k], particle.position),
              HalfSize(particle))

\* whether the Stick response of this Update holds the particle
Sticks(particle, deltaTime) ==
    /\ particle.life > 0
    /\ m_enableCollisions
    /\ m_collisionResponse = "Stick"
    /\ TouchesPlane(IntegrateParticle(particle, deltaTime))

\* whether the particle is in the live prefix after this Update
Survives(particle, deltaTime) == UpdateParticle(particle, deltaTime).life > 0

\* the slot that compaction gives to the survivor of slot i
NewSlot(ps, i, deltaTime) ==
    Cardinality({j \in 1..i : Survives(ps[j], deltaTime)})

\* the slots, after this Update, of the particles that a Stick response
\* has held in this Update or in an earlier one
StuckAfter(deltaTime) ==
    {NewSlot(m_particles, i, deltaTime) :
        i \in {j \in 1..m_activeParticles :
                  /\ Survives(m_particles[j], deltaTime)
                  /\ (j \in stuck \/ Sticks(m_particles[j], deltaTime))}}

\* the pool r of the emitters, integrated
Integrate(r, deltaTime) ==
    IF m_isGPUBased THEN UpdateGPU(r.particles, r.active, deltaTime)
                    ELSE UpdateCPU(r.particles, r.active, deltaTime)

\* Update with the emitter loop of lines 76-79 placed ahead of the
\* integration of lines 70-74
UpdateEmitsFirst(deltaTime) ==
    /\ updates < MaxUpdates
    /\ \E plans \in [1..Len(m_emitters) -> UNION {EmitterPlans(m_emitters[k]) :
                                                    k \in 1..Len(m_emitters)}] :
        /\ \A k \in 1..Len(m_emitters) : plans[k] \in EmitterPlans(m_emitters[k])
        /\ Finish(Integrate(UpdateEmitters(m_particles, m_activeParticles, 1, plans),
                            deltaTime),
                  m_simulationTime + deltaTime)
    /\ frame' = [update |-> [k \in 1..Len(m_emitters) |-> "Emit"] \o <<"Integrate">>
                                \o (IF m_enableCollisions THEN <<"Collision">> ELSE <<>>)
                                \o <<"Statistics">>,
                 render |-> <<>>]
    /\ updates' = updates + 1
    /\ stuck' = StuckAfter(deltaTime)
    /\ elapsed' = elapsed + deltaTime
    /\ last' = [ran |-> EmittersUpdated(1)] @@ Called("Update", deltaTime, 0, 0)
    /\ UNCHANGED <<m_maxParticles, m_isGPUBased, physics, lists, render, updating,
                   destroyed,
                   engine>>

Update(deltaTime) ==
    /\ updates < MaxUpdates
    /\ \E plans \in [1..Len(m_emitters) -> UNION {EmitterPlans(m_emitters[k]) :
                                                    k \in 1..Len(m_emitters)}] :
        /\ \A k \in 1..Len(m_emitters) : plans[k] \in EmitterPlans(m_emitters[k])
        /\ RunEmitters(IF m_isGPUBased
                       THEN UpdateGPU(m_particles, m_activeParticles, deltaTime)
                       ELSE UpdateCPU(m_particles, m_activeParticles, deltaTime),
                       plans, m_simulationTime + deltaTime)
    /\ frame' = [update |-> UpdateStages, render |-> <<>>]
    /\ updates' = updates + 1
    /\ stuck' = StuckAfter(deltaTime)
    /\ elapsed' = elapsed + deltaTime
    /\ last' = [ran |-> EmittersUpdated(1)] @@ Called("Update", deltaTime, 0, 0)
    /\ UNCHANGED <<m_maxParticles, m_isGPUBased, physics, lists, render, updating,
                   destroyed,
                   engine>>

\* the pool and the result r that EmitParticles leaves
Emitted(r, count) ==
    /\ m_particles' = r.particles
    /\ m_activeParticles' = r.active
    /\ last' = Called("EmitParticles", 0, count, r.emitted)

EmitParticlesCall(emission) ==
    \E samples \in [1..ParticlesToEmit(m_activeParticles, emission.count)
                        -> Samples(emission)] :
        /\ Emitted(EmitParticles(m_particles, m_activeParticles, emission, samples),
                   emission.count)
        /\ UNCHANGED <<m_maxParticles, render, frame, m_isGPUBased, m_simulationTime, physics,
                       lists, m_statistics, updates, stuck, updating, elapsed, destroyed,
                   engine>>

\* the addresses of the emitters that m_emitters owns
Owned == {m_emitters[k].id : k \in 1..Len(m_emitters)}

\* the emitters of list, by serial number
Serials(list) == [k \in 1..Len(list) |-> list[k].serial]

\* CreateEmitter; address is where std::make_unique puts the emitter, which
\* is the address of no emitter alive, and is the pointer returned
CreateEmitter(desc, address) ==
    /\ address \notin Owned
    /\ m_emitters' = Append(m_emitters,
                            [id |-> address, serial |-> nextEmitter, desc |-> desc])
    /\ nextEmitter' = nextEmitter + 1
    /\ last' = [desc |-> desc, emitters |-> m_emitters]
                   @@ Called("CreateEmitter", 0, 0, address)
    /\ UNCHANGED <<pool, m_maxParticles, render, frame, m_isGPUBased, m_simulationTime, physics,
                   m_forceFields, m_collisionPlanes, m_statistics, updates, stuck, updating, elapsed, destroyed,
                   engine>>

\* DestroyEmitter that erases the emitter found and the one after it
DestroyEmitterAndNext(emitter) ==
    /\ m_emitters' = SelectSeq(m_emitters,
                               LAMBDA e : e.id # emitter /\ e.id # emitter + 1)
    /\ destroyed' = destroyed \cup {e.serial : e \in {m_emitters[k] : k \in
                                        {j \in 1..Len(m_emitters) :
                                            m_emitters[j].id = emitter}}}
    /\ last' = [emitters |-> m_emitters] @@ Called("DestroyEmitter", 0, 0, emitter)
    /\ UNCHANGED <<pool, m_maxParticles, render, frame, m_isGPUBased, m_simulationTime, physics,
                   m_forceFields, m_collisionPlanes, nextEmitter, m_statistics,
                   updates, stuck, updating, elapsed,
                   engine>>

\* DestroyEmitter; the addresses of the emitters owned differ, so find_if
\* finds at most one
DestroyEmitter(emitter) ==
    /\ m_emitters' = SelectSeq(m_emitters, LAMBDA e : e.id # emitter)
    /\ destroyed' = destroyed \cup {e.serial : e \in {m_emitters[k] : k \in
                                        {j \in 1..Len(m_emitters) :
                                            m_emitters[j].id = emitter}}}
    /\ last' = [emitters |-> m_emitters] @@ Called("DestroyEmitter", 0, 0, emitter)
    /\ UNCHANGED <<pool, m_maxParticles, render, frame, m_isGPUBased, m_simulationTime, physics,
                   m_forceFields, m_collisionPlanes, nextEmitter, m_statistics,
                   updates, stuck, updating, elapsed,
                   engine>>

SetGravity(gravity) ==
    /\ m_gravity' = gravity
    /\ last' = Called("SetGravity", 0, 0, 0)
    /\ UNCHANGED <<pool, m_maxParticles, render, frame, m_isGPUBased, m_simulationTime, lists,
                   m_windForce, m_airResistance, m_restitution, m_enableCollisions,
                   m_collisionResponse, m_statistics, updates, stuck, updating, elapsed, destroyed,
                   engine>>

SetWindForce(wind) ==
    /\ m_windForce' = wind
    /\ last' = Called("SetWindForce", 0, 0, 0)
    /\ UNCHANGED <<pool, m_maxParticles, render, frame, m_isGPUBased, m_simulationTime, lists,
                   m_gravity, m_airResistance, m_restitution, m_enableCollisions,
                   m_collisionResponse, m_statistics, updates, stuck, updating, elapsed, destroyed,
                   engine>>

\* what the caller of a function declared void gets back
Void == 0 - 1

AddForceField(field) ==
    /\ m_forceFields' = Append(m_forceFields, field)
    /\ last' = [field |-> field, fields |-> m_forceFields]
                   @@ Called("AddForceField", 0, 0, Void)
    /\ UNCHANGED <<pool, m_maxParticles, render, frame, m_isGPUBased, m_simulationTime, physics,
                   m_emitters, m_collisionPlanes, nextEmitter, m_statistics, updates, stuck, updating, elapsed, destroyed,
                   engine>>

RemoveForceField(index) ==
    /\ m_forceFields' =
          IF index < Len(m_forceFields)
          THEN [k \in 1..(Len(m_forceFields) - 1) |->
                   IF k <= index THEN m_forceFields[k] ELSE m_forceFields[k + 1]]
          ELSE m_forceFields
    /\ last' = [fields |-> m_forceFields] @@ Called("RemoveForceField", 0, index, Void)
    /\ UNCHANGED <<pool, m_maxParticles, render, frame, m_isGPUBased, m_simulationTime, physics,
                   m_emitters, m_collisionPlanes, nextEmitter, m_statistics, updates, stuck, updating, elapsed, destroyed,
                   engine>>

SetCollisionPlanes(planes) ==
    /\ m_collisionPlanes' = planes
    /\ last' = Called("SetCollisionPlanes", 0, 0, 0)
    /\ UNCHANGED <<pool, m_maxParticles, render, frame, m_isGPUBased, m_simulationTime, physics,
                   m_emitters, m_forceFields, nextEmitter, m_statistics, updates, stuck, updating, elapsed, destroyed,
                   engine>>

\* GetStatistics with the statistics that follow the pool at every call,
\* not only at Update
GetStatisticsLive ==
    /\ m_statistics' = Statistics(m_activeParticles, m_simulationTime)
    /\ last' = [snapshot |-> m_statistics'] @@ Called("GetStatistics", 0, 0, 0)
    /\ UNCHANGED <<pool, m_maxParticles, render, frame, m_isGPUBased, m_simulationTime,
                   physics, lists, updates, stuck, updating, elapsed, destroyed,
                   engine>>

\* GetStatistics returns a reference to m_statistics
GetStatistics ==
    /\ last' = [snapshot |-> m_statistics] @@ Called("GetStatistics", 0, 0, 0)
    /\ UNCHANGED <<pool, m_maxParticles, render, frame, m_isGPUBased, m_simulationTime,
                   physics, lists, m_statistics, updates, stuck, updating, elapsed, destroyed,
                   engine>>

\* selection of the execution strategy, of the collision response and of the
\* physical coefficients
Configure(gpu, collisions, response, restitution, airResistance) ==
    /\ m_isGPUBased' = gpu
    /\ m_enableCollisions' = collisions
    /\ m_collisionResponse' = response
    /\ m_restitution' = restitution
    /\ m_airResistance' = airResistance
    /\ last' = Called("Configure", 0, 0, 0)
    /\ UNCHANGED <<pool, m_maxParticles, render, frame, m_simulationTime, lists, m_gravity,
                   m_windForce, m_statistics, updates, stuck, updating, elapsed, destroyed,
                   engine>>

\* selection of sorting and of the presentation mode
RenderSettings(sort, mode) ==
    /\ m_sortParticles' = sort
    /\ m_renderMode' = mode
    /\ last' = Called("RenderSettings", 0, 0, 0)
    /\ UNCHANGED <<pool, m_maxParticles, m_isGPUBased, m_simulationTime, physics,
                   lists, m_statistics, m_particleIndices, rendered, frame, updates, stuck, updating, elapsed, destroyed,
                   engine>>

-----------------------------------------------------------------------------
(* Render *)

\* IndexFrom without the test of line 461
RECURSIVE IndexFromEverySlot(_, _, _, _)
IndexFromEverySlot(ps, active, i, cameraPos) ==
    IF i > active THEN <<>>
    ELSE <<[index |-> i,
            distance |-> LengthSquared(VSub(ps[i].position, cameraPos))]>>
         \o IndexFromEverySlot(ps, active, i + 1, cameraPos)

\* the loop of SortParticlesCPU from slot i on: an entry for each live slot,
\* with its squared distance to the camera (index is the slot, from 1)
RECURSIVE IndexFrom(_, _, _, _)
IndexFrom(ps, active, i, cameraPos) ==
    IF i > active THEN <<>>
    ELSE (IF ps[i].life > 0
          THEN <<[index |-> i,
                  distance |-> LengthSquared(VSub(ps[i].position, cameraPos))]>>
          ELSE <<>>) \o IndexFrom(ps, active, i + 1, cameraPos)

\* SortedOrders with the comparison of line 469 written a.distance < b.distance
SortedOrdersNearestFirst(list) ==
    {[k \in 1..Len(list) |-> list[f[k]]] :
        f \in {g \in [1..Len(list) -> 1..Len(list)] :
                  /\ \A a, b \in 1..Len(list) : a # b => g[a] # g[b]
                  /\ \A a, b \in 1..Len(list) :
                        a < b => ~(list[g[b]].distance < list[g[a]].distance)}}

\* what std::sort can leave of list under the comparison
\* a.distance > b.distance: any arrangement without an inversion
SortedOrders(list) ==
    {[k \in 1..Len(list) |-> list[f[k]]] :
        f \in {g \in [1..Len(list) -> 1..Len(list)] :
                  /\ \A a, b \in 1..Len(list) : a # b => g[a] # g[b]
                  /\ \A a, b \in 1..Len(list) :
                        a < b => ~(list[g[b]].distance > list[g[a]].distance)}}

\* SortParticlesCPU; SortParticlesGPU leaves the same list
SortParticles(cameraPos) ==
    SortedOrders(IndexFrom(m_particles, m_activeParticles, 1, cameraPos))

\* what RenderBillboards, RenderMeshes, RenderTrails and RenderVolumetric
\* hand to the renderer: the sorted list, or the live range when the
\* particles are not sorted
DrawList(indices) ==
    [mode |-> m_renderMode,
     slots |-> IF m_sortParticles THEN [k \in 1..Len(indices) |-> indices[k].index]
                                  ELSE [k \in 1..m_activeParticles |-> k]]

\* the stages of Render, in the order in which its body runs them
RenderStages(renderer) ==
    (IF m_sortParticles THEN <<"Sort">> ELSE <<>>)
        \o (IF renderer # "null" THEN <<"Render">> ELSE <<>>)

\* Submit that hands the draw list over whatever the renderer
SubmitToAny(renderer, indices) ==
    /\ m_particleIndices' = indices
    /\ rendered' = DrawList(indices)
    /\ frame' = [frame EXCEPT !.render = RenderStages(renderer)]

\* Render from the switch on m_renderMode on, indices being the index list
Submit(renderer, indices) ==
    /\ m_particleIndices' = indices
    /\ rendered' = IF renderer # "null" THEN DrawList(indices) ELSE rendered
    /\ frame' = [frame EXCEPT !.render = RenderStages(renderer)]

\* the call Render(renderer), with the camera that GetCameraPosition gave
\* and the draw list that the renderer held
RenderCalled(renderer, cameraPos) ==
    [camera |-> cameraPos, renderer |-> renderer, rendered |-> rendered]
        @@ Called("Render", 0, 0, 0)

\* Render that compacts the pool before it sorts
RenderDropsDead(renderer, cameraPos) ==
    /\ m_particles' = RemoveDeadParticles(m_particles, m_activeParticles).particles
    /\ m_activeParticles' = RemoveDeadParticles(m_particles, m_activeParticles).active
    /\ IF m_activeParticles = 0
       THEN /\ frame' = [frame EXCEPT !.render = <<>>]
            /\ UNCHANGED <<m_particleIndices, rendered>>
       ELSE \E indices \in IF m_sortParticles THEN SortParticles(cameraPos)
                                             ELSE {m_particleIndices} :
               Submit(renderer, indices)
    /\ last' = RenderCalled(renderer, cameraPos)
    /\ UNCHANGED <<m_maxParticles, m_isGPUBased, m_simulationTime, physics,
                   lists, m_statistics, m_sortParticles, m_renderMode, updates, stuck, updating, elapsed, destroyed,
                   engine>>

Render(renderer, cameraPos) ==
    /\ IF m_activeParticles = 0
       THEN /\ frame' = [frame EXCEPT !.render = <<>>]
            /\ UNCHANGED <<m_particleIndices, rendered>>
       ELSE \E indices \in IF m_sortParticles THEN SortParticles(cameraPos)
                                             ELSE {m_particleIndices} :
               Submit(renderer, indices)
    /\ last' = RenderCalled(renderer, cameraPos)
    /\ UNCHANGED <<pool, m_maxParticles, m_isGPUBased, m_simulationTime, physics,
                   lists, m_statistics, m_sortParticles, m_renderMode, updates, stuck, updating, elapsed, destroyed,
                   engine>>

-----------------------------------------------------------------------------
(* Update on the sequential path, one slot at a time, as a thread that     *)
(* calls a setter meanwhile finds it                                        *)

\* Update up to the loop of UpdateCPU; the sequences and the pool that it
\* found are kept with its position
BeginUpdate(deltaTime) ==
    /\ updates < MaxUpdates
    /\ updating = Idle
    /\ ~m_isGPUBased
    /\ m_simulationTime' = m_simulationTime + deltaTime
    /\ updating' = [phase |-> "loop", i |-> 1, dt |-> deltaTime, held |-> {},
                    forceFields |-> m_forceFields,
                    collisionPlanes |-> m_collisionPlanes,
                    call |-> [ran |-> EmittersUpdated(1)]
                                @@ Called("Update", deltaTime, 0, 0)]
    /\ elapsed' = elapsed + deltaTime
    /\ UNCHANGED <<pool, m_maxParticles, m_isGPUBased, physics, lists, m_statistics,
                   render, frame, updates, stuck, destroyed, last,
                   engine>>

\* one iteration of the loop of UpdateCPU, under the sequences of the moment
StepUpdate ==
    /\ updating # Idle
    /\ updating.i <= m_activeParticles
    /\ m_particles' = [m_particles EXCEPT
                          ![updating.i] = UpdateParticle(@, updating.dt)]
    /\ updating' = [updating EXCEPT
                       !.i = @ + 1,
                       !.held = IF Sticks(m_particles[updating.i], updating.dt)
                                THEN @ \cup {updating.i} ELSE @]
    /\ UNCHANGED <<m_activeParticles, m_maxParticles, m_isGPUBased, m_simulationTime,
                   physics, lists, m_statistics, render, frame, updates, stuck, elapsed,
                   destroyed, last,
                   engine>>

\* the slots, after compaction, of the live particles among those of slots
SlotsKept(slots) ==
    {Cardinality({j \in 1..i : m_particles[j].life > 0}) :
        i \in {j \in slots : j <= m_activeParticles /\ m_particles[j].life > 0}}

\* the end of the loop: RemoveDeadParticles, the emitters, UpdateStatistics
EndUpdate ==
    /\ updating # Idle
    /\ updating.i > m_activeParticles
    /\ \E plans \in [1..Len(m_emitters) -> UNION {EmitterPlans(m_emitters[k]) :
                                                    k \in 1..Len(m_emitters)}] :
        /\ \A k \in 1..Len(m_emitters) : plans[k] \in EmitterPlans(m_emitters[k])
        /\ RunEmitters(RemoveDeadParticles(m_particles, m_activeParticles), plans,
                       m_simulationTime)
    /\ frame' = [update |-> UpdateStages, render |-> <<>>]
    /\ updates' = updates + 1
    /\ stuck' = SlotsKept(stuck \cup updating.held)
    /\ updating' = Idle
    /\ last' = updating.call
    /\ UNCHANGED <<m_maxParticles, m_isGPUBased, physics, lists, render, elapsed,
                   destroyed,
                   engine>>

-----------------------------------------------------------------------------
(* Engine (src/src/core/entity.hpp, src/include/demoph/core/engine.h) *)

\* the state of the particle system, which no operation of Engine touches
system == <<pool, m_maxParticles, m_isGPUBased, m_simulationTime, physics, lists,
            m_statistics, render, frame, updates, stuck, updating, elapsed, destroyed>>

scenes == <<m_scenes, m_activeScene, nextScene>>

\* ShouldRun without the test of m_shouldShutdown
ShouldRunWhileRunning == m_state = "Running"

ShouldRun == m_state = "Running" /\ ~m_shouldShutdown

\* the statements of one iteration of Run's loop, after the frame counters
FrameStages == <<"ProcessEvents", "Update", "Render", "UpdateFPS", "WindowClose">>

\* Initialize(config); ok is what InitializeSubsystems returns
EngineInitialize(ok) ==
    /\ m_state = "Uninitialized"
    /\ m_state' = IF ok THEN "Running" ELSE "Uninitialized"
    /\ UNCHANGED <<system, scenes, m_shouldShutdown, m_frameCount, run, stages,
                   shouldClose, requested, last>>

\* RequestShutdown, called by a callback or an event handler of the frame
\* or outside of Run
RequestShutdown ==
    /\ m_shouldShutdown' = TRUE
    /\ requested' = IF requested = NotRequested
                    THEN [frame |-> m_frameCount, stage |-> run]
                    ELSE requested
    /\ UNCHANGED <<system, scenes, m_state, m_frameCount, run, stages, shouldClose,
                   last>>

\* the call of Run, up to its loop
Run ==
    /\ run \in {"idle", "returned"}
    /\ run' = IF m_state # "Running" THEN "returned" ELSE "test"
    /\ UNCHANGED <<system, scenes, m_state, m_shouldShutdown, m_frameCount, stages,
                   shouldClose, requested, last>>

\* while (ShouldRun()), and the frame counters of the iteration it starts
RunTest ==
    /\ run = "test"
    /\ ShouldRun => m_frameCount < MaxFrames
    /\ IF ShouldRun
       THEN /\ m_frameCount' = m_frameCount + 1
            /\ stages' = <<>>
            /\ run' = "ProcessEvents"
       ELSE /\ run' = "returned"
            /\ UNCHANGED <<m_frameCount, stages>>
    /\ UNCHANGED <<system, scenes, m_state, m_shouldShutdown, shouldClose, requested,
                   last>>

\* ProcessEvents: the window polls its events, among them a request to
\* close it
ProcessEvents ==
    /\ run = "ProcessEvents"
    /\ shouldClose' \in {shouldClose, TRUE}
    /\ stages' = Append(stages, "ProcessEvents")
    /\ run' = "Update"
    /\ UNCHANGED <<system, scenes, m_state, m_shouldShutdown, m_frameCount, requested,
                   last>>

\* Update(deltaTime) of the frame
EngineUpdate ==
    /\ run = "Update"
    /\ stages' = Append(stages, "Update")
    /\ run' = "Render"
    /\ UNCHANGED <<system, scenes, m_state, m_shouldShutdown, m_frameCount,
                   shouldClose, requested, last>>

\* Render() of the frame
EngineRender ==
    /\ run = "Render"
    /\ stages' = Append(stages, "Render")
    /\ run' = "UpdateFPS"
    /\ UNCHANGED <<system, scenes, m_state, m_shouldShutdown, m_frameCount,
                   shouldClose, requested, last>>

UpdateFPS ==
    /\ run = "UpdateFPS"
    /\ stages' = Append(stages, "UpdateFPS")
    /\ run' = "WindowClose"
    /\ UNCHANGED <<system, scenes, m_state, m_shouldShutdown, m_frameCount,
                   shouldClose, requested, last>>

\* if (m_window && m_window->ShouldClose()) RequestShutdown(), the last
\* statement of the iteration
WindowClose ==
    /\ run = "WindowClose"
    /\ m_shouldShutdown' = (m_shouldShutdown \/ shouldClose)
    /\ requested' = IF shouldClose /\ requested = NotRequested
                    THEN [frame |-> m_frameCount, stage |-> run]
                    ELSE requested
    /\ stages' = Append(stages, "WindowClose")
    /\ run' = "test"
    /\ UNCHANGED <<system, scenes, m_state, m_frameCount, shouldClose, last>>

\* the steps of the thread that is inside Run
RunStep ==
    RunTest \/ ProcessEvents \/ EngineUpdate \/ EngineRender \/ UpdateFPS \/ WindowClose

\* the addresses of the scenes that m_scenes owns
OwnedScenes == {m_scenes[k].id : k \in 1..Len(m_scenes)}

\* what a call on the scenes found
SceneCalled(op, scene) ==
    [scenes |-> m_scenes, activeScene |-> m_activeScene] @@ Called(op, 0, 0, scene)

\* CreateScene; address is where std::make_unique puts the scene
CreateScene(name, address) ==
    /\ address \notin OwnedScenes
    /\ m_scenes' = Append(m_scenes, [id |-> address, serial |-> nextScene, name |-> name])
    /\ m_activeScene' = IF m_activeScene = 0 THEN address ELSE m_activeScene
    /\ nextScene' = nextScene + 1
    /\ last' = SceneCalled("CreateScene", address)
    /\ UNCHANGED <<system, m_state, m_shouldShutdown, m_frameCount, run, stages,
                   shouldClose, requested>>

\* DestroyScene without the test of lines 467-469
DestroySceneKeepsActive(scene) ==
    /\ m_scenes' = SelectSeq(m_scenes, LAMBDA s : s.id # scene)
    /\ last' = SceneCalled("DestroyScene", scene)
    /\ UNCHANGED <<system, m_activeScene, nextScene, m_state, m_shouldShutdown,
                   m_frameCount, run, stages, shouldClose, requested>>

DestroyScene(scene) ==
    /\ m_activeScene' = IF scene = m_activeScene THEN 0 ELSE m_activeScene
    /\ m_scenes' = SelectSeq(m_scenes, LAMBDA s : s.id # scene)
    /\ last' = SceneCalled("DestroyScene", scene)
    /\ UNCHANGED <<system, nextScene, m_state, m_shouldShutdown, m_frameCount, run,
                   stages, shouldClose, requested>>

SetActiveScene(scene) ==
    /\ m_activeScene' = IF scene \in OwnedScenes THEN scene ELSE m_activeScene
    /\ last' = SceneCalled("SetActiveScene", scene)
    /\ UNCHANGED <<system, m_scenes, nextScene, m_state, m_shouldShutdown,
                   m_frameCount, run, stages, shouldClose, requested>>

-----------------------------------------------------------------------------
(* Inputs *)

DeltaTimes == {0 - Scale, 0, Scale}

Ground == [normal |-> Up, distance |-> 0]

\* a particle one unit above the ground, falling, that shrinks and fades
Falling(count) ==
    [count |-> count, shape |-> {Zero}, position |-> <<0, Scale, 0>>,
     velocity |-> {<<0, 0 - 5 * Scale, 0>>},
     minLife |-> Scale, maxLife |-> 2 * Scale,
     minSize |-> Scale, maxSize |-> Scale, sizeOverLifetime |-> Scale \div 2,
     startColor |-> Scale, endColor |-> 0]

\* a descriptor whose life range is [0, 0]
Stillborn(count) == [Falling(count) EXCEPT !.minLife = 0, !.maxLife = 0]

Counts == {1, MaxParticles + 100}

Emissions == {Falling(c) : c \in Counts} \cup {Stillborn(1)}

\* configuration happens before the simulation starts
Setup == updates = 0 /\ m_activeParticles = 0

-----------------------------------------------------------------------------
(* Specification: the pool under emission, both strategies and emitters *)

Next ==
    \/ \E deltaTime \in DeltaTimes : Update(deltaTime)
    \/ \E emission \in Emissions : EmitParticlesCall(emission)
    \/ Setup /\ nextEmitter <= MaxEmitters /\ CreateEmitter(Falling(1), nextEmitter)
    \/ Setup /\ SetCollisionPlanes(<<Ground>>)
    \/ Setup /\ \E gpu \in BOOLEAN, response \in {"Die", "Bounce"} :
                  Configure(gpu, TRUE, response, m_restitution, m_airResistance)
    \/ GetStatistics

Spec == Init /\ [][Next]_vars

-----------------------------------------------------------------------------
(* Specification: the integration of single particles on the sequential    *)
(* path, under the collision responses                                      *)

Wall == [normal |-> <<Scale, 0, 0>>, distance |-> 0 - Scale]

\* a particle lying on the ground that moves towards the wall
Sliding(count) ==
    [Falling(count) EXCEPT !.position = Zero, !.velocity = {<<0 - Scale, 0, 0>>},
                           !.minLife = 2 * Scale]

\* m_enableCollisions, m_collisionResponse, m_restitution, m_airResistance
PhysicsConfigs ==
    {<<TRUE, "Die", 80, 1>>, <<TRUE, "Stick", 80, 1>>, <<TRUE, "Bounce", Scale, 0>>,
     <<TRUE, "Bounce", 80, 2 * Scale>>, <<FALSE, "Bounce", 80, 1>>}

NextPhysics ==
    \/ \E deltaTime \in DeltaTimes : Update(deltaTime)
    \/ EmitParticlesCall(Falling(1))
    \/ EmitParticlesCall(Sliding(1))
    \/ Setup /\ \E planes \in {<<Ground>>, <<Ground, Wall>>} : SetCollisionPlanes(planes)
    \/ Setup /\ SetGravity(Zero)
    \/ Setup /\ \E c \in PhysicsConfigs : Configure(FALSE, c[1], c[2], c[3], c[4])

SpecPhysics == Init /\ [][NextPhysics]_vars

-----------------------------------------------------------------------------
(* Specification: frames, an Update and the Render that follows it *)

Cameras == {<<0, 10 * Scale, 0>>}

NextFrame ==
    \/ \E deltaTime \in {0, Scale} : Update(deltaTime)
    \/ EmitParticlesCall(Falling(1))
    \/ Setup /\ nextEmitter <= MaxEmitters /\ CreateEmitter(Falling(1), nextEmitter)
    \/ Setup /\ SetCollisionPlanes(<<Ground>>)
    \/ Setup /\ \E gpu, collisions \in BOOLEAN :
                  Configure(gpu, collisions, m_collisionResponse, m_restitution,
                            m_airResistance)
    \/ Setup /\ \E sort \in BOOLEAN : RenderSettings(sort, m_renderMode)
    \/ \E renderer \in {"null", "renderer"}, cameraPos \in Cameras :
          Render(renderer, cameraPos)

SpecFrame == Init /\ [][NextFrame]_vars

-----------------------------------------------------------------------------
(* Specification: Render and its sort, over pools of live and dead slots *)

\* ParticleRenderMode
RenderModes == {"Billboard", "Mesh", "Trail", "Volumetric"}

\* a camera above the particles, and one as far from a particle at
\* (0, 1, 0) as from one at the origin
RenderCameras == {<<0, 10 * Scale, 0>>, <<0, Scale \div 2, 0>>}

\* m_sortParticles and m_renderMode: each mode sorted, one unsorted
RenderChoices == {<<TRUE, mode>> : mode \in RenderModes} \cup {<<FALSE, "Billboard">>}

NextRender ==
    \/ Update(Scale \div 2)
    \/ \E emission \in {Falling(1), Sliding(1), Stillborn(1)} : EmitParticlesCall(emission)
    \/ Setup /\ Configure(FALSE, m_enableCollisions, m_collisionResponse, m_restitution,
                           m_airResistance)
    \/ Setup /\ \E setting \in RenderChoices : RenderSettings(setting[1], setting[2])
    \/ \E renderer \in {"null", "renderer"}, cameraPos \in RenderCameras :
          Render(renderer, cameraPos)

SpecRender == Init /\ [][NextRender]_vars

-----------------------------------------------------------------------------
(* Specification: the Stick response, with gravity changed between Updates *)

\* a particle at rest 0.4 above the ground, within half its size of it
Hovering(count) ==
    [Falling(count) EXCEPT !.position = <<0, 40, 0>>, !.velocity = {Zero},
                           !.minLife = 2 * Scale]

Gravities == {Zero, <<0, 981, 0>>}

NextStick ==
    \/ \E deltaTime \in {Scale \div 2, Scale} : Update(deltaTime)
    \/ EmitParticlesCall(Falling(1))
    \/ EmitParticlesCall(Hovering(1))
    \/ Setup /\ SetCollisionPlanes(<<Ground>>)
    \/ Setup /\ \E gpu \in BOOLEAN :
                  Configure(gpu, TRUE, "Stick", m_restitution, m_airResistance)
    \/ \E gravity \in Gravities : m_gravity # gravity /\ SetGravity(gravity)

SpecStick == Init /\ [][NextStick]_vars

-----------------------------------------------------------------------------
(* Specification: one force field, with particles at its centre, within it  *)
(* and on its edge                                                          *)

ForceFieldTypes == {"Attract", "Repel", "Vortex", "Turbulence"}
ForceFieldFalloffs == {"None", "Linear", "Quadratic"}

\* the position of the falling particle, that of the sliding one, a point
\* at distance 1.0 of each, and a point at distance 0.5 of both
FieldPositions == {<<0, Scale, 0>>, Zero, <<Scale, 0, 0>>, <<0, Scale \div 2, 0>>}

FieldAt(type, falloff, position, radius) ==
    [type |-> type, position |-> position, radius |-> radius,
     strength |-> 2 * Scale, falloff |-> falloff, turbulenceScale |-> Scale]

\* fields of radius 1.0, and fields of radius 0 where the falling particle is
Fields ==
    {FieldAt(type, falloff, position, Scale) :
        type \in ForceFieldTypes, falloff \in ForceFieldFalloffs,
        position \in FieldPositions}
    \cup {FieldAt("Attract", falloff, <<0, Scale, 0>>, 0) : falloff \in {"None", "Linear"}}

\* whether the particle holds a float that is not a number
NotFinite(particle) ==
    \/ HasNaN(particle.position)
    \/ HasNaN(particle.velocity)
    \/ particle.life = NaN
    \/ particle.size = NaN
    \/ particle.color = NaN

PoolHasNaN == \E i \in 1..m_activeParticles : NotFinite(m_particles[i])

\* the model follows a pool up to the Update that leaves a NaN in it
NextFields ==
    \/ ~PoolHasNaN /\ Update(Scale)
    \/ EmitParticlesCall(Falling(1))
    \/ EmitParticlesCall(Sliding(1))
    \/ Setup /\ Len(m_forceFields) < MaxFields /\ \E field \in Fields : AddForceField(field)
    \/ Setup /\ Configure(FALSE, m_enableCollisions, m_collisionResponse, m_restitution,
                           m_airResistance)

SpecFields == Init /\ [][NextFields]_vars

-----------------------------------------------------------------------------
(* Specification: setters called by a second thread while Update runs *)

\* a field that pushes the falling particle up
Lifting == FieldAt("Repel", "None", Zero, 2 * Scale)

NextConcurrent ==
    \/ BeginUpdate(Scale)
    \/ StepUpdate
    \/ EndUpdate
    \/ updating = Idle /\ EmitParticlesCall(Falling(1))
    \/ Setup /\ Configure(FALSE, m_enableCollisions, m_collisionResponse, m_restitution,
                           m_airResistance)
    \/ Len(m_forceFields) < MaxFields /\ AddForceField(Lifting)
    \/ m_forceFields # <<>> /\ RemoveForceField(0)
    \/ \E planes \in {<<>>, <<Ground>>} :
          m_collisionPlanes # planes /\ SetCollisionPlanes(planes)

SpecConcurrent == Init /\ [][NextConcurrent]_vars

-----------------------------------------------------------------------------
(* Specification: the emitter list under creation, destruction and Update *)

\* a descriptor whose life range is inverted
Inverted(count) == [Falling(count) EXCEPT !.minLife = 2 * Scale, !.maxLife = Scale]

\* a descriptor whose life range is one value
Brief(count) == [Falling(count) EXCEPT !.maxLife = Scale]

Descriptors == {Brief(1), Inverted(1)}

\* the pointers a caller can hold: the addresses, and nullptr
Handles == 0..MaxAddresses

NextEmitters ==
    \/ Update(Scale)
    \/ \E desc \in Descriptors, address \in 1..MaxAddresses :
          nextEmitter <= MaxCreated /\ CreateEmitter(desc, address)
    \/ \E emitter \in Handles : DestroyEmitter(emitter)

SpecEmitters == Init /\ [][NextEmitters]_vars

-----------------------------------------------------------------------------
(* Specification: a pool of three slots on the sequential path *)

NextCompaction ==
    \/ \E deltaTime \in {Scale \div 2, Scale} : Update(deltaTime)
    \/ EmitParticlesCall(Falling(1))
    \/ Setup /\ Configure(FALSE, m_enableCollisions, m_collisionResponse, m_restitution,
                           m_airResistance)

SpecCompaction == Constructed(LargePool) /\ [][NextCompaction]_vars

-----------------------------------------------------------------------------
(* Specification: free flight under gravity, wind and air resistance *)

\* a wind that blows away from the wall, and one that blows into it
Winds == {<<Scale, 0, 0>>, <<0 - 3 * Scale, 0, 0>>}

AirResistances == {1, 2 * Scale}

NextMotion ==
    \/ \E deltaTime \in {Scale \div 2, Scale} : Update(deltaTime)
    \/ EmitParticlesCall(Falling(1))
    \/ Setup /\ \E wind \in Winds : SetWindForce(wind)
    \/ Setup /\ SetCollisionPlanes(<<Wall>>)
    \/ Setup /\ \E airResistance \in AirResistances :
                  Configure(FALSE, TRUE, "Bounce", 80, airResistance)

SpecMotion == Init /\ [][NextMotion]_vars

-----------------------------------------------------------------------------
(* Specification: the sequence of force fields *)

\* three fields that differ
Listed == {FieldAt(type, "None", Zero, 2 * Scale) : type \in {"Attract", "Repel", "Vortex"}}

\* indices within a sequence of MaxListed fields, its length and one beyond
Indices == 0..(MaxListed + 1)

NextFieldList ==
    \/ \E field \in Listed : Len(m_forceFields) < MaxListed /\ AddForceField(field)
    \/ \E index \in Indices : RemoveForceField(index)

SpecFieldList == Init /\ [][NextFieldList]_vars

-----------------------------------------------------------------------------
(* Specification: Engine::Run and RequestShutdown; the thread inside Run   *)
(* keeps running                                                            *)

NextRun ==
    \/ \E ok \in BOOLEAN : EngineInitialize(ok)
    \/ Run
    \/ RunTest
    \/ ProcessEvents
    \/ EngineUpdate
    \/ EngineRender
    \/ UpdateFPS
    \/ WindowClose
    \/ RequestShutdown

SpecRun == Init /\ [][NextRun]_vars /\ WF_vars(RunStep)

-----------------------------------------------------------------------------
(* Specification: the scenes of the Engine *)

NextScenes ==
    \/ \E address \in 1..MaxAddresses :
          nextScene <= MaxCreated /\ CreateScene("scene", address)
    \/ \E scene \in Handles : DestroyScene(scene)
    \/ \E scene \in Handles : SetActiveScene(scene)

SpecScenes == Init /\ [][NextScenes]_vars

-----------------------------------------------------------------------------
(* Claims *)

\* C1: in every reachable state, whatever the counts requested of
\* EmitParticles and whatever Update and the emitters did,
\* activeCount <= maxParticles.
C1_CapacityInvariant == m_activeParticles <= m_maxParticles

\* an Update on the sequential path during which an emitter filled the pool
C1_Witness ==
    /\ last.op = "Update"
    /\ ~m_isGPUBased
    /\ Len(m_emitters) > 0
    /\ last.active < m_maxParticles
    /\ m_activeParticles = m_maxParticles

\* C2: EmitParticles returns min(count, maxParticles - activeCount before the
\* call) and activeCount grows by exactly that; maxParticles + 100 requested
\* of an empty pool returns maxParticles and a full pool returns 0.
C2_EmitReturnsClamped ==
    last.op = "EmitParticles" =>
        /\ last.ret = Min(last.count, m_maxParticles - last.active)
        /\ m_activeParticles = last.active + last.ret
        /\ (last.count = m_maxParticles + 100 /\ last.active = 0) =>
               (last.ret = m_maxParticles /\ m_activeParticles = m_maxParticles)
        /\ last.active = m_maxParticles => last.ret = 0

\* maxParticles + 100 requested of an empty pool on the sequential path
C2_Witness ==
    /\ last.op = "EmitParticles"
    /\ ~m_isGPUBased
    /\ last.count = m_maxParticles + 100
    /\ last.active = 0
    /\ last.ret = m_maxParticles

FrameLog == frame.update \o frame.render

\* every stage a of the frame ran before every stage b of it
Precedes(a, b) ==
    \A i, j \in 1..Len(FrameLog) :
        (FrameLog[i] = a /\ FrameLog[j] = b) => i < j

\* the stages of the frame ran in the given order
StageOrder(order) ==
    \A a, b \in 1..Len(order) : a < b => Precedes(order[a], order[b])

\* the number of particles that the integration of the last Update kept;
\* the slots past it hold what the emitters added in that Update
Kept == Integrate([particles |-> last.particles, active |-> last.active],
                  last.dt).active

\* a particle as InitializeParticle leaves it
Fresh(particle) ==
    /\ particle.life = particle.initialLife
    /\ particle.size = particle.startSize
    /\ particle.color = particle.startColor

SequentialUpdate == last.op = "Update" /\ ~m_isGPUBased
Before(i) == last.particles[i]
WasLive(i) == i \in 1..last.active /\ Before(i).life > 0

SameMotion(p, q) ==
    p.position = q.position /\ p.velocity = q.velocity /\ p.life = q.life

\* C5: Update(0.0) leaves the position, velocity and life of every particle
\* unchanged, whatever the gravity, wind, fields, planes and response
\* (stated of the sequential path).
C5_ZeroDtChangesNothing ==
    (SequentialUpdate /\ last.dt = 0) =>
        \A i \in 1..last.active : SameMotion(m_particles[i], Before(i))

\* C6: Update(dt) with dt < 0 changes no particle's position, velocity or
\* life (stated of the sequential path).
C6_NegativeDtIsNoOp ==
    (SequentialUpdate /\ last.dt < 0) =>
        \A i \in 1..last.active : SameMotion(m_particles[i], Before(i))

\* pools a and b have the same live count and, slot by slot of the live
\* prefix, the same position, velocity, life, size and colour
SamePool(a, b) ==
    /\ a.active = b.active
    /\ \A i \in 1..a.active :
          /\ SameMotion(a.particles[i], b.particles[i])
          /\ a.particles[i].size = b.particles[i].size
          /\ a.particles[i].color = b.particles[i].color

\* what the batch path and the sequential path make of the pool that the
\* last Update found
BatchResult == UpdateGPU(last.particles, last.active, last.dt)
SequentialResult == UpdateCPU(last.particles, last.active, last.dt)

\* the pool after the last Update, up to the first active slots
Prefix(active) == [particles |-> m_particles, active |-> active]

Integrated(i) == IntegrateParticle(Before(i), last.dt)

\* whether the particle touches the k-th plane
Touches(particle, k) ==
    Below(DistanceToPoint(m_collisionPlanes[k], particle.position), HalfSize(particle))

\* C8: with collisions enabled and response Die, a live particle that is
\* nearer than size * 0.5 to some plane after its position update has
\* life <= 0 at the end of the same Update.
C8_DiePlaneKills ==
    (SequentialUpdate /\ m_enableCollisions /\ m_collisionResponse = "Die") =>
        \A i \in 1..last.active :
            (WasLive(i) /\ \E k \in 1..Len(m_collisionPlanes) : Touches(Integrated(i), k))
                => UpdateParticle(Before(i), last.dt).life <= 0

\* the particle of slot i when the loop of HandleParticleCollisions reaches
\* the k-th plane, and when it leaves it
AtPlane(i, k) == CollidePlanes(Integrated(i), 1, k - 1)
PastPlane(i, k) == CollidePlanes(Integrated(i), 1, k)

BounceUpdate ==
    SequentialUpdate /\ m_enableCollisions /\ m_collisionResponse = "Bounce"

\* restitution * (v - 2 (v.n) n)
Bounced(v, n) ==
    <<FMul(v[1] - FMul(n[1], 2 * Dot(v, n)), m_restitution),
      FMul(v[2] - FMul(n[2], 2 * Dot(v, n)), m_restitution),
      FMul(v[3] - FMul(n[3], 2 * Dot(v, n)), m_restitution)>>

\* C9: with response Bounce a particle that hits a plane of unit normal n
\* gets the velocity restitution * (v - 2 (v.n) n); with restitution 1.0 a
\* particle that reaches the plane y = 0 with velocity (0, -5, 0) ends the
\* Update with velocity (0, 5, 0).
C9_BounceReflects ==
    BounceUpdate =>
        \A i \in 1..last.active : WasLive(i) =>
            /\ \A k \in 1..Len(m_collisionPlanes) :
                  Touches(AtPlane(i, k), k) =>
                      PastPlane(i, k).velocity =
                          Bounced(AtPlane(i, k).velocity, m_collisionPlanes[k].normal)
            /\ (/\ m_restitution = Scale
                /\ m_collisionPlanes = <<Ground>>
                /\ Integrated(i).velocity = <<0, 0 - 5 * Scale, 0>>
                /\ Touches(Integrated(i), 1)
                /\ Before(i).life > last.dt
                /\ \A j \in 1..i : WasLive(j) /\ Before(j).life > last.dt)
               => m_particles[i].velocity = <<0, 5 * Scale, 0>>

\* the falling particle, bounced off the ground with restitution 1.0
C9_Witness ==
    /\ BounceUpdate
    /\ m_restitution = Scale
    /\ m_collisionPlanes = <<Ground>>
    /\ last.active = 1
    /\ WasLive(1)
    /\ Integrated(1).velocity = <<0, 0 - 5 * Scale, 0>>
    /\ Touches(Integrated(1), 1)
    /\ m_activeParticles = 1
    /\ m_particles[1].velocity = <<0, 5 * Scale, 0>>

\* C10: the penetration correction of Bounce moves the particle a
\* non-negative amount along the plane's normal, and right after the
\* response the particle is at distance size * 0.5 of that plane.
C10_BounceRestoresToSurface ==
    BounceUpdate =>
        \A i \in 1..last.active : WasLive(i) =>
            \A k \in 1..Len(m_collisionPlanes) :
                Touches(AtPlane(i, k), k) =>
                    /\ DistanceToPoint(m_collisionPlanes[k], PastPlane(i, k).position)
                          = HalfSize(AtPlane(i, k))
                    /\ Dot(VSub(PastPlane(i, k).position, AtPlane(i, k).position),
                           m_collisionPlanes[k].normal) >= 0
                    /\ ~Touches(PastPlane(i, k), k)

\* a particle that had sunk below the ground and was lifted back to it, and
\* then pushed off the wall
C10_Witness ==
    /\ BounceUpdate
    /\ m_collisionPlanes = <<Ground, Wall>>
    /\ \E i \in 1..last.active :
          /\ WasLive(i)
          /\ DistanceToPoint(Ground, Integrated(i).position) < 0
          /\ Touches(AtPlane(i, 2), 2)
          /\ PastPlane(i, 2).position # AtPlane(i, 2).position

\* an Update that has just returned, with the Stick response in force
StickUpdate ==
    last.op = "Update" /\ m_enableCollisions /\ m_collisionResponse = "Stick"

\* the particle of slot i as the last Update left it, dead or alive
Updated(i) == UpdateParticle(Before(i), last.dt)

\* the slot of the live prefix in which the last Update left the particle
\* that it found in slot i
SlotNow(i) == NewSlot(last.particles, i, last.dt)

\* the particle that the last Update found in slot i was held by a Stick
\* response in an earlier Update
WasStuck(i) == i \in last.stuck

\* C11 as stated: with response Stick a particle that collides with a plane
\* in an Update has zero velocity at the end of it, and in every later
\* Update while it is alive it is again nearer than size * 0.5 to the plane
\* and has zero velocity at the end of the step.
C11_StickKeepsSticking ==
    StickUpdate =>
        \A i \in 1..last.active : WasLive(i) =>
            /\ TouchesPlane(Integrated(i)) => Updated(i).velocity = Zero
            /\ (WasStuck(i) /\ Updated(i).life > 0) =>
                  /\ TouchesPlane(Integrated(i))
                  /\ m_particles[SlotNow(i)].velocity = Zero

\* C11, amended: with response Stick a particle that is nearer than
\* size * 0.5 to a plane after its position update ends the Update with
\* zero velocity, where integration placed it; a particle that is not,
\* whether or not it was held before, keeps the velocity that integration
\* gave it, and a survivor is in the pool as the Update left it.
C11_StickZeroesOnContact ==
    StickUpdate =>
        \A i \in 1..last.active : WasLive(i) =>
            /\ Updated(i).position = Integrated(i).position
            /\ Updated(i).velocity =
                  IF TouchesPlane(Integrated(i)) THEN Zero ELSE Integrated(i).velocity
            /\ Updated(i).life > 0 =>
                  SameMotion(m_particles[SlotNow(i)], Updated(i))

\* a particle that an earlier Update had stuck to the ground and that this
\* Update, under a gravity turned upwards, lifted off it with a velocity
C11_Witness ==
    /\ StickUpdate
    /\ \E i \in 1..last.active :
          /\ WasLive(i)
          /\ WasStuck(i)
          /\ Before(i).velocity = Zero
          /\ Updated(i).life > 0
          /\ ~TouchesPlane(Integrated(i))
          /\ m_particles[SlotNow(i)].velocity # Zero

\* end + (start - end) * life / initialLife, evaluated in one rounding
AlongLife(end, start, life, initialLife) ==
    end + RDiv((start - end) * life, initialLife)

\* a and b differ by no more than the rounding of one product and one
\* quotient
Near(a, b) == Abs(a - b) <= 1

\* the size and the colour of the particle are those of its life
FollowsLife(particle) ==
    /\ Near(particle.size, AlongLife(particle.endSize, particle.startSize,
                                      particle.life, particle.initialLife))
    /\ Near(particle.color, AlongLife(particle.endColor, particle.startColor,
                                       particle.life, particle.initialLife))
    /\ particle.life = particle.initialLife =>
          particle.size = particle.startSize /\ particle.color = particle.startColor
    /\ particle.life = 0 =>
          particle.size = particle.endSize /\ particle.color = particle.endColor

\* C12: a freshly emitted particle has life = initialLife, size = startSize
\* and color = startColor; after every property update size is
\* endSize + (startSize - endSize) * life / initialLife, and likewise the
\* colour: the start values at life = initialLife, the end values at life = 0.
C12_PropertiesFollowLife ==
    /\ last.op = "EmitParticles" =>
          \A i \in (last.active + 1)..m_activeParticles : Fresh(m_particles[i])
    /\ last.op = "Update" =>
          \A i \in 1..last.active : WasLive(i) =>
              /\ FollowsLife(Updated(i))
              /\ Updated(i).life > 0 =>
                    /\ m_particles[SlotNow(i)].size = Updated(i).size
                    /\ m_particles[SlotNow(i)].color = Updated(i).color

\* an Update of one second that found a fresh particle of life 1.0 and one
\* of life 2.0: the first ends with its end values, the second half way
C12_Witness ==
    /\ last.op = "Update"
    /\ last.dt = Scale
    /\ last.active = 2
    /\ Fresh(Before(1)) /\ Before(1).life = Scale
    /\ Fresh(Before(2)) /\ Before(2).life = 2 * Scale
    /\ Before(2).startSize # Before(2).endSize
    /\ Updated(1).size = Before(1).endSize
    /\ m_activeParticles >= 1
    /\ m_particles[1].life = Scale
    /\ 2 * m_particles[1].size = Before(2).startSize + Before(2).endSize

\* a Render that has just returned and whose Sort stage ran
SortedRender == last.op = "Render" /\ m_sortParticles /\ last.active > 0

\* the squared distance to the camera of the last Render of the particle in
\* this slot
DistanceOf(slot) == LengthSquared(VSub(m_particles[slot].position, last.camera))

\* C13: after Sort(camera) the index list is non-increasing in squared
\* distance to the camera: each entry is at least as far as the next.
C13_SortedFarthestFirst ==
    SortedRender =>
        /\ \A k \in 1..Len(m_particleIndices) :
              m_particleIndices[k].distance = DistanceOf(m_particleIndices[k].index)
        /\ \A k \in 1..(Len(m_particleIndices) - 1) :
              m_particleIndices[k].distance >= m_particleIndices[k + 1].distance

\* a sort on the sequential path that put the particle of the second slot,
\* farther from the camera, ahead of that of the first
C13_Witness ==
    /\ SortedRender
    /\ ~m_isGPUBased
    /\ Len(m_particleIndices) = 2
    /\ m_particleIndices[1].index = 2
    /\ m_particleIndices[1].distance > m_particleIndices[2].distance

\* the slots of the live prefix whose particle is alive
LiveSlots == {i \in 1..m_activeParticles : m_particles[i].life > 0}

\* C14: after Sort the index list holds exactly the slots of
\* [0, activeCount) with life > 0, each once; no entry names a dead slot or
\* a slot at or beyond activeCount, and the renderer gets none through it.
C14_IndexListIsLiveSlots ==
    SortedRender =>
        /\ {m_particleIndices[k].index : k \in 1..Len(m_particleIndices)} = LiveSlots
        /\ Len(m_particleIndices) = Cardinality(LiveSlots)
        /\ last.renderer # "null" =>
              /\ rendered.slots = [k \in 1..Len(m_particleIndices) |->
                                      m_particleIndices[k].index]
              /\ \A k \in 1..Len(rendered.slots) : rendered.slots[k] \in LiveSlots

\* a sort over a prefix of one dead and one live slot, submitted
C14_Witness ==
    /\ SortedRender
    /\ ~m_isGPUBased
    /\ last.renderer # "null"
    /\ m_activeParticles = 2
    /\ m_particles[1].life <= 0
    /\ Len(m_particleIndices) = 1
    /\ rendered.slots = <<2>>

\* C15: Render, its Sort stage included and in each of the four modes,
\* leaves the pool, activeCount, the force fields, the collision planes and
\* the simulation time unchanged.
C15_RenderLeavesSimulation ==
    [][last'.op = "Render" =>
          UNCHANGED <<m_particles, m_activeParticles, m_forceFields,
                      m_collisionPlanes, m_simulationTime>>]_vars

\* a Render in Volumetric mode, after an Update, that sorted a prefix with
\* a dead slot in it and left the pool as it found it
C15_Witness ==
    /\ SortedRender
    /\ m_renderMode = "Volumetric"
    /\ rendered # <<>>
    /\ rendered.mode = "Volumetric"
    /\ m_simulationTime > 0
    /\ \E i \in 1..m_activeParticles : m_particles[i].life <= 0
    /\ m_particles = last.particles
    /\ m_activeParticles = last.active

EnteringField(i, k) ==
    ApplyForceFields(Accelerate(Before(i), last.dt), SubSeq(m_forceFields, 1, k - 1),
                     1, last.dt)

\* the distance of the particle to the centre of the field
CentreDistance(particle, field) == Length(VSub(particle.position, field.position))

\* what the field adds to the velocity of the particle in the step
Gain(particle, field) ==
    VSub(ApplyForceField(particle, field, last.dt).velocity, particle.velocity)

\* the least value of the falloff curve over the radius
MinFalloff(falloff) ==
    CHOOSE m \in {CalculateFalloff(x, falloff) : x \in 0..Scale} :
        \A x \in 0..Scale : m <= CalculateFalloff(x, falloff)

\* the addition to the velocity at the least strength of the curve
EdgeGain(particle, field) ==
    VMul(FieldForce(field, particle.position,
                    Normalize(VSub(particle.position, field.position)),
                    FMul(field.strength, MinFalloff(field.falloff))),
         last.dt)

OnEdge(particle, field) == CentreDistance(particle, field) = field.radius

\* C17: a particle exactly at distance field.radius of a field gets from
\* it, in the step, no additional velocity, or that of the least value of
\* the falloff curve, for every field type and every falloff, None included.
C17_EdgeGetsMinimal ==
    SequentialUpdate =>
        \A i \in 1..last.active : WasLive(i) =>
            \A k \in 1..Len(m_forceFields) :
                OnEdge(EnteringField(i, k), m_forceFields[k]) =>
                    /\ Gain(EnteringField(i, k), m_forceFields[k])
                          = EdgeGain(EnteringField(i, k), m_forceFields[k])
                    /\ m_forceFields[k].falloff # "None" =>
                          Gain(EnteringField(i, k), m_forceFields[k]) = Zero

\* the force of the field on the particle
Pull(particle, field) ==
    FieldForce(field, particle.position,
               Normalize(VSub(particle.position, field.position)),
               FieldStrength(field, CentreDistance(particle, field)))

\* C18: a particle at distance 0 of an Attract field gets the maximal pull
\* of the field: a finite force of magnitude field.strength.
C18_CentrePullIsMaximal ==
    SequentialUpdate =>
        \A i \in 1..last.active : WasLive(i) =>
            \A k \in 1..Len(m_forceFields) :
                (/\ m_forceFields[k].type = "Attract"
                 /\ CentreDistance(EnteringField(i, k), m_forceFields[k]) = 0)
                => /\ ~HasNaN(Pull(EnteringField(i, k), m_forceFields[k]))
                   /\ Length(Pull(EnteringField(i, k), m_forceFields[k]))
                         = m_forceFields[k].strength

\* whether ApplyForceField reaches the division of line 343 for the particle
DividesByRadius(particle, field) ==
    /\ ~(CentreDistance(particle, field) > field.radius)
    /\ field.falloff # "None"

\* C19: no Update leaves a NaN or an Inf in the state of a live particle:
\* every distance / field.radius evaluated in the step has a divisor other
\* than 0, a field of radius 0 with a particle at its position included.
C19_NoNaNPersists ==
    SequentialUpdate =>
        /\ \A i \in 1..last.active : WasLive(i) =>
              \A k \in 1..Len(m_forceFields) :
                  DividesByRadius(EnteringField(i, k), m_forceFields[k]) =>
                      m_forceFields[k].radius # 0
        /\ \A i \in 1..m_activeParticles : ~NotFinite(m_particles[i])

\* C20: AddForceField, RemoveForceField and SetCollisionPlanes called
\* while an Update is in progress do not change the sequence of force
\* fields or of collision planes that the Update is using; they take
\* effect at the start of the next Update.
C20_MutationsWaitForNextUpdate ==
    updating # Idle =>
        /\ m_forceFields = updating.forceFields
        /\ m_collisionPlanes = updating.collisionPlanes

-----------------------------------------------------------------------------
(* C21 *)

\* what UpdateStatistics would write in the current state
Snapshot ==
    [activeParticles |-> m_activeParticles, maxParticles |-> m_maxParticles,
     simulationTime |-> elapsed, isGPUBased |-> m_isGPUBased]

\* everything but the record of the last call
Simulation ==
    <<m_particles, m_activeParticles, m_maxParticles, m_isGPUBased,
      m_simulationTime, m_emitters, m_forceFields, m_collisionPlanes,
      m_gravity, m_windForce, m_airResistance, m_restitution,
      m_enableCollisions, m_collisionResponse, m_statistics,
      m_particleIndices, m_sortParticles, m_renderMode, rendered>>

\* C21: GetStatistics is a pure read of a snapshot written once per
\* Update: it changes no state and returns m_statistics, only Update
\* writes m_statistics, and right after any Update the snapshot holds the
\* active count, the capacity, the sum of all deltaTime passed to Update
\* and the strategy flag.
C21_StatisticsSnapshot ==
    /\ [](last.op = "Update" => m_statistics = Snapshot)
    /\ [][(last'.op = "GetStatistics" =>
               (last'.snapshot = m_statistics /\ UNCHANGED Simulation))
              /\ (m_statistics' # m_statistics => last'.op = "Update")]_vars

\* GetStatistics after an emission that followed an Update: the snapshot
\* returned is the one of the Update
C21_Witness ==
    /\ last.op = "GetStatistics"
    /\ updates > 0
    /\ elapsed = Scale
    /\ last.snapshot.simulationTime = Scale
    /\ last.snapshot.activeParticles = 1
    /\ m_activeParticles = 2

-----------------------------------------------------------------------------
(* C23 *)

\* the particle of slot i as UpdateCPU hands it to UpdateParticleProperties
Interpolated(i) == Age(UpdateParticlePhysics(Before(i), last.dt), last.dt)

\* lifeRatio of UpdateParticleProperties
LifeRatio(particle) == FDiv(particle.life, particle.initialLife)

\* C23: whenever the property interpolation is computed for a particle,
\* its initialLife is not 0 and life / initialLife lies in [0, 1],
\* the step in which the life drops to or below 0 included.
C23_LifeRatioInUnitInterval ==
    SequentialUpdate =>
        \A i \in 1..last.active :
            Before(i).life > 0 =>
                /\ Interpolated(i).initialLife # 0
                /\ LifeRatio(Interpolated(i)) >= 0
                /\ LifeRatio(Interpolated(i)) <= Scale

-----------------------------------------------------------------------------
(* C22 *)

\* a descriptor whose ranges are ranges and whose count is positive
ValidDescriptor(desc) ==
    /\ desc.count > 0
    /\ 0 <= desc.minLife /\ desc.minLife <= desc.maxLife
    /\ 0 <= desc.minSize /\ desc.minSize <= desc.maxSize

\* C22: CreateEmitter called with an invalid descriptor returns no valid
\* handle (nullptr) and adds no emitter to m_emitters.
C22_InvalidDescriptorRejected ==
    last.op = "CreateEmitter" /\ ~ValidDescriptor(last.desc) =>
        /\ last.ret = 0
        /\ m_emitters = last.emitters

-----------------------------------------------------------------------------
(* C24 *)

\* the pool as the loop of UpdateCPU left it in the last Update, before
\* RemoveDeadParticles
Looped == UpdateLoop(last.particles, last.active, 1, last.dt)

\* the slots of the live prefix of Looped whose particle has life > 0
LiveLooped == {i \in 1..last.active : Looped[i].life > 0}

Compacted == RemoveDeadParticles(Looped, last.active)

\* C24: compaction keeps exactly the particles of the live prefix that
\* have life > 0, unchanged and in their relative order, as the new
\* prefix, and sets the active count to their number; a second
\* compaction changes nothing.
C24_CompactionKeepsSurvivorsInOrder ==
    SequentialUpdate =>
        /\ Compacted.active = Cardinality(LiveLooped)
        /\ \A k \in 1..Compacted.active :
              Compacted.particles[k] = Looped[NthOf(LiveLooped, k)]
        /\ RemoveDeadParticles(Compacted.particles, Compacted.active) = Compacted
        /\ m_emitters = <<>> =>
              /\ m_particles = Compacted.particles
              /\ m_activeParticles = Compacted.active

\* an Update in which the particle of the second of three slots died and
\* the two around it, which differ, moved down in their order
C24_Witness ==
    /\ SequentialUpdate
    /\ last.active = 3
    /\ LiveLooped = {1, 3}
    /\ Looped[1] # Looped[3]
    /\ m_activeParticles = 2
    /\ m_particles[2] = Looped[3]

-----------------------------------------------------------------------------
(* C25 *)

\* (v + gravity * dt + wind * dt), the velocity before the damping
Pushed(v, dt) == VAdd(VAdd(v, VMul(m_gravity, dt)), VMul(m_windForce, dt))

\* 1 - airResistance * dt
Damping(dt) == Scale - FMul(m_airResistance, dt)

\* (v + gravity * dt + wind * dt) * (1 - airResistance * dt)
Damped(v, dt) == VMul(Pushed(v, dt), Damping(dt))

\* the particle after a step of free flight
Flown(particle, dt) ==
    [particle EXCEPT !.velocity = Damped(particle.velocity, dt),
                     !.position = VAdd(particle.position,
                                       VMul(Damped(particle.velocity, dt), dt)),
                     !.life = particle.life - dt]

\* no force field reaches the particle and its flight touches no plane
FreeFlight(particle, dt) ==
    /\ \A k \in 1..Len(m_forceFields) :
          CentreDistance(particle, m_forceFields[k]) > m_forceFields[k].radius
    /\ ~(m_enableCollisions /\ TouchesPlane(Flown(particle, dt)))

\* v and w point in opposite directions on every axis
Inverts(v, w) ==
    \A c \in 1..3 : (v[c] > 0 => w[c] < 0) /\ (v[c] < 0 => w[c] > 0)

\* C25: for a live particle with no force field in range and no
\* collision, a sequential Update(dt) with dt > 0 gives the velocity
\* (v + gravity*dt + wind*dt) * (1 - airResistance*dt), the position
\* p + v'*dt with the new velocity and the life life - dt; the damping is
\* not clamped, so with airResistance*dt > 1 the velocity changes sign.
C25_FreeFlight ==
    (SequentialUpdate /\ last.dt > 0) =>
        \A i \in 1..last.active :
            (Before(i).life > 0 /\ FreeFlight(Before(i), last.dt)) =>
                /\ SameMotion(Updated(i), Flown(Before(i), last.dt))
                /\ Before(i).life - last.dt > 0 =>
                      SameMotion(m_particles[SlotNow(i)], Flown(Before(i), last.dt))
                /\ FMul(m_airResistance, last.dt) > Scale =>
                      Inverts(Pushed(Before(i).velocity, last.dt),
                              Updated(i).velocity)

\* a particle in free flight, with a wall in the pool and a wind, in an
\* Update with airResistance * dt = 2: it survives with its velocity
\* turned round
C25_Witness ==
    /\ SequentialUpdate
    /\ last.dt = Scale
    /\ m_airResistance = 2 * Scale
    /\ m_windForce # Zero
    /\ m_collisionPlanes # <<>>
    /\ last.active > 0
    /\ Before(1).life > Scale
    /\ FreeFlight(Before(1), last.dt)
    /\ Pushed(Before(1).velocity, last.dt)[2] < 0
    /\ m_particles[1].velocity[2] > 0

-----------------------------------------------------------------------------
(* C26 *)

\* the slots that the last EmitParticles had to write
EmittedSlots == (last.active + 1)..(last.active + last.ret)

\* C26: EmitParticles writes exactly the slots from the active count
\* before the call up to that count plus the number emitted and leaves
\* every other slot, the live prefix before the call included, unchanged;
\* when it emits 0 particles the pool and the active count are unchanged.
C26_EmitWritesOnlyNewSlots ==
    last.op = "EmitParticles" =>
        /\ \A i \in 1..Len(m_particles) \ EmittedSlots :
              m_particles[i] = last.particles[i]
        /\ \A i \in EmittedSlots : Fresh(m_particles[i])
        /\ last.ret = 0 =>
              m_particles = last.particles /\ m_activeParticles = last.active

\* an emission of one particle on the sequential path into the second slot
\* of a pool whose first slot holds a particle that an Update has moved
C26_Witness ==
    /\ last.op = "EmitParticles"
    /\ ~m_isGPUBased
    /\ last.active = 1
    /\ last.ret = 1
    /\ ~Fresh(m_particles[1])
    /\ m_particles[2] # last.particles[2]

-----------------------------------------------------------------------------
(* C27 *)

\* the sequence without its element of 0-based index
Without(list, index) ==
    SubSeq(list, 1, index) \o SubSeq(list, index + 2, Len(list))

\* AddForceField appends the field; RemoveForceField(i) removes exactly
\* field i when i is below the length and nothing otherwise
FieldListKept ==
    /\ last.op = "AddForceField" => m_forceFields = Append(last.fields, last.field)
    /\ last.op = "RemoveForceField" =>
          m_forceFields = IF last.count < Len(last.fields)
                          THEN Without(last.fields, last.count)
                          ELSE last.fields

\* C27: AddForceField appends the field at the end of the sequence and
\* returns its index, the previous length; RemoveForceField(i) with i
\* below the length removes exactly field i and keeps the others in their
\* order, and otherwise leaves the sequence unchanged.
C27_FieldIndexReturned ==
    /\ last.op = "AddForceField" => last.ret = Len(last.fields)
    /\ FieldListKept

-----------------------------------------------------------------------------
(* C28 *)

\* the emitters constructed so far and not destroyed
Alive == (1..(nextEmitter - 1)) \ destroyed

\* the emitters that the last DestroyEmitter found in the list with the
\* address it was given, by position
Found == {k \in 1..Len(last.emitters) : last.emitters[k].id = last.ret}

\* C28: every Update calls Update once on each emitter that the system
\* owns, in the order of creation; DestroyEmitter(h) removes exactly the
\* emitter h and leaves the others in their order, no emitter is updated
\* after it was destroyed, and DestroyEmitter with a handle that is not
\* in the list changes nothing.
C28_EmittersUpdatedInOrder ==
    /\ {m_emitters[k].serial : k \in 1..Len(m_emitters)} = Alive
    /\ \A j, k \in 1..Len(m_emitters) :
          j < k => m_emitters[j].serial < m_emitters[k].serial
    /\ last.op = "Update" =>
          /\ last.ran = Serials(m_emitters)
          /\ \A k \in 1..Len(last.ran) : last.ran[k] \notin destroyed
    /\ last.op = "DestroyEmitter" =>
          /\ m_particles = last.particles /\ m_activeParticles = last.active
          /\ Found = {} => m_emitters = last.emitters
          /\ \A k \in Found :
                /\ Found = {k}
                /\ m_emitters = Without(last.emitters, k - 1)
                /\ last.emitters[k].serial \in destroyed

\* an Update of the first and the third emitter, after the second of three
\* was destroyed
C28_Witness ==
    /\ last.op = "Update"
    /\ last.ran = <<1, 3>>
    /\ destroyed = {2}

-----------------------------------------------------------------------------
(* C29 *)

\* RequestShutdown was first called while a frame was under way
RequestedInFrame ==
    \E k \in 1..Len(FrameStages) : requested.stage = FrameStages[k]

\* after RequestShutdown no frame is started, and the frame under way at
\* the call runs all its stages before Run returns
ShutdownAfterFrame ==
    requested # NotRequested =>
        /\ m_frameCount = requested.frame
        /\ (run = "returned" /\ RequestedInFrame) => stages = FrameStages

\* a frame is never left midway
FramesAreWhole ==
    /\ stages = SubSeq(FrameStages, 1, Len(stages))
    /\ run \in {"test", "returned"} => stages \in {<<>>, FrameStages}

\* C29: once RequestShutdown is called during a frame, that frame still
\* completes its remaining stages and no further frame is started, so Run
\* terminates; RequestShutdown never interrupts a frame midway.
C29_ShutdownCompletesFrame ==
    /\ [](ShutdownAfterFrame /\ FramesAreWhole)
    /\ (m_shouldShutdown /\ run \notin {"idle", "returned"}) ~> (run = "returned")

\* Run has returned after a RequestShutdown that came before Update in the
\* second frame, with the window open: the frame ran to its end and was
\* the last one
C29_Witness ==
    /\ run = "returned"
    /\ requested = [frame |-> 2, stage |-> "Update"]
    /\ ~shouldClose
    /\ stages = FrameStages
    /\ m_frameCount = 2

-----------------------------------------------------------------------------
(* C30 *)

\* C30: in every state that CreateScene, DestroyScene and SetActiveScene
\* reach, the active scene is null or a scene that the engine owns:
\* DestroyScene of the active scene clears it, SetActiveScene ignores a
\* scene that is not owned, and the first CreateScene makes its scene
\* active.
C30_ActiveSceneIsOwned ==
    /\ m_activeScene = 0 \/ m_activeScene \in OwnedScenes
    /\ (last.op = "DestroyScene" /\ last.ret = last.activeScene) => m_activeScene = 0
    /\ last.op = "SetActiveScene" =>
          m_activeScene = IF \E k \in 1..Len(last.scenes) : last.scenes[k].id = last.ret
                          THEN last.ret ELSE last.activeScene
    /\ (last.op = "CreateScene" /\ last.scenes = <<>>) => m_activeScene = last.ret

\* DestroyScene of the active scene while the engine owns another one
C30_Witness ==
    /\ last.op = "DestroyScene"
    /\ last.ret # 0
    /\ last.ret = last.activeScene
    /\ m_scenes # <<>>
    /\ m_activeScene = 0

====
